---- MODULE Spec2Model ----
(***************************************************************************)
(* Model of the webhook handlers of github-auto-review-bot (src/index.ts): *)
(* the pull_request.opened enrichment flow (summary, label suggestion,     *)
(* label application, reviewer routing) and the pull_request.synchronize   *)
(* review flow.  Every await of a collaborator call is one step; the       *)
(* collaborators (model service, hosting API) answer nondeterministically. *)
(*                                                                         *)
(* Text is a sequence of atoms: an atom is a word, a blank " " or a comma  *)
(* ",".  A label (one token of the parsed list) is the sequence of atoms   *)
(* between two commas after trimming, so <<"bug">> is the label "bug".     *)
(***************************************************************************)
EXTENDS Integers, Sequences, FiniteSets, TLC

VARIABLES ev, pc, outcome, calls, repoLabels, prLabels, comments, checkRuns,
          labelsText, suggestedLabels, idx, reviewers,
          filesChanged, fileContents, prompt,
          completion, delivered, pending, prev, race

\* the dispatcher's side: events delivered so far, events still to come, what
\* the previous event left; and the two handlers of the concurrent scenario
dispatch == <<delivered, pending, prev, race>>

vars == <<ev, pc, outcome, calls, repoLabels, prLabels, comments, checkRuns,
          labelsText, suggestedLabels, idx, reviewers,
          filesChanged, fileContents, prompt, completion, dispatch>>

(* ---------------------------------------------------------------- bounds *)
MaxTextLen == 5
MaxOutLen == 3
MaxBodyLen == 2
MaxFilesChanged == 5
MaxPatchLines == 21
MaxContentLen == 2001
MaxEvents == 3
MaxCommentLen == 3

(* ----------------------------------------------------- program constants *)
MAX_FILES == 3
MAX_LINES == 20
MAX_CONTENT_CHARS == 2000

(* ------------------------------------------------------- text and parsing *)
Words == {"bug", "BUG", "test", "docs", "zzz", "constructor"}
TextAtoms == Words \cup {",", " "}
OutAtoms == {"bug", "test", "zzz", ",", " "}
BodyAtoms == {" ", "fix"}

RECURSIVE SeqsUpTo(_, _)
SeqsUpTo(S, n) ==
  IF n = 0 THEN {<<>>}
  ELSE LET shorter == SeqsUpTo(S, n - 1)
       IN shorter \cup {Append(s, a) : s \in {t \in shorter : Len(t) = n - 1}, a \in S}

Range(s) == {s[i] : i \in DOMAIN s}

IsSpace(a) == a = " "

LowerAtom(a) == IF a = "BUG" THEN "bug" ELSE a

ToLowerCase(s) == [i \in DOMAIN s |-> LowerAtom(s[i])]

RECURSIVE TrimStart(_)
TrimStart(s) ==
  IF s # <<>> /\ IsSpace(Head(s)) THEN TrimStart(Tail(s)) ELSE s

RECURSIVE TrimEnd(_)
TrimEnd(s) ==
  IF s # <<>> /\ IsSpace(s[Len(s)]) THEN TrimEnd(SubSeq(s, 1, Len(s) - 1)) ELSE s

Trim(s) == TrimEnd(TrimStart(s))

RECURSIVE SplitComma(_)
SplitComma(s) ==
  LET commas == {i \in DOMAIN s : s[i] = ","}
  IN IF commas = {} THEN <<s>>
     ELSE LET i == CHOOSE k \in commas : \A m \in commas : k <= m
          IN <<SubSeq(s, 1, i - 1)>> \o SplitComma(SubSeq(s, i + 1, Len(s)))

MapTrim(ts) == [i \in DOMAIN ts |-> Trim(ts[i])]

FilterBoolean(ts) == SelectSeq(ts, LAMBDA t : t # <<>>)

ParseLabels(text) == FilterBoolean(MapTrim(SplitComma(ToLowerCase(Trim(text)))))

(* ------------------------------------------------------- reviewer routing *)
ObjectConstructor == "[Function: Object]"

OwnTable ==
  [l \in {<<"frontend">>, <<"backend">>, <<"bug">>, <<"docs">>, <<"test">>,
          <<"refactor">>, <<"enhancement">>} |->
     CASE l = <<"frontend">> -> <<"ui-team">>
       [] l = <<"backend">> -> <<"api-team">>
       [] l = <<"bug">> -> <<"qa-team">>
       [] l = <<"docs">> -> <<"doc-reviewer">>
       [] l = <<"test">> -> <<"qa-team">>
       [] l = <<"refactor">> -> <<"arch-team">>
       [] l = <<"enhancement">> -> <<"feature-owner">>]

\* labelToReviewers[l] || [] as flatMap sees it: an own key gives its array;
\* the object literal also answers for the keys it inherits from
\* Object.prototype, with a value that is not an array and is appended whole.
LabelToReviewers(l) ==
  IF l \in DOMAIN OwnTable THEN OwnTable[l]
  ELSE IF l = <<"constructor">> THEN <<ObjectConstructor>>
  ELSE <<>>

RECURSIVE FlatMapReviewers(_)
FlatMapReviewers(labels) ==
  IF labels = <<>> THEN <<>>
  ELSE LabelToReviewers(Head(labels)) \o FlatMapReviewers(Tail(labels))

RECURSIVE FilterFirstIndex(_, _)
FilterFirstIndex(a, i) ==
  IF i > Len(a) THEN <<>>
  ELSE (IF \A j \in 1..(i - 1) : a[j] # a[i] THEN <<a[i]>> ELSE <<>>)
       \o FilterFirstIndex(a, i + 1)

RouteReviewers(labels) == FilterFirstIndex(FlatMapReviewers(labels), 1)

(* ------------------------------------------------------ collaborator API *)
\* A failure is named by its HTTP status; "422nc" is the 422 whose message
\* contains "not a collaborator".
Status(e) ==
  CASE e = "404" -> 404
    [] e = "500" -> 500
    [] e = "422" -> 422
    [] e = "422nc" -> 422
    [] OTHER -> 200

MessageIncludesNotACollaborator(e) == e = "422nc"

NoLabels == <<>>
NoReviewers == <<>>

Call(op, what, labels, revs, path, res) ==
  [op |-> op, what |-> what, labels |-> labels, reviewers |-> revs,
   path |-> path, res |-> res]

ModelResults == {"ok", "500"}
CreateCommentResults == {"ok", "500"}
ListFilesResults == {"ok", "500"}
RequestReviewersResults == {"ok", "422nc", "422", "500"}

\* The hosting collaborator: a label is added when it exists on the
\* repository and the call is answered not-found when it does not.
AddLabelsResults(label) ==
  (IF label \in repoLabels THEN {"ok"} ELSE {"404"}) \cup {"500"}

CreateLabelResults(label) ==
  (IF label \in repoLabels THEN {"422"} ELSE {"ok"}) \cup {"500"}

(* ----------------------------------------------------------------- events *)
\* a behaviour that delivers several events draws its events and the
\* collaborators' answers from smaller sets
InSequence == delivered + pending > 1

Body(isNull, text) == [isNull |-> isNull, text |-> text]

Bodies ==
  IF InSequence THEN {Body(TRUE, <<>>), Body(FALSE, <<"fix">>)}
  ELSE {Body(TRUE, <<>>)} \cup {Body(FALSE, t) : t \in SeqsUpTo(BodyAtoms, MaxBodyLen)}

OpenedEvents == {[kind |-> "pull_request.opened", body |-> b] : b \in Bodies}

SynchronizeEvents == {[kind |-> "pull_request.synchronize", body |-> Body(TRUE, <<>>)]}

CommentAtoms == {"/summarize", "/review", "/reviewers", "/labels", "/labelsx", "/assign",
                 "bug", "zzz", " "}

CommentTexts ==
  IF InSequence THEN {<<"/labels", " ", "zzz">>, <<"/assign", " ", "zzz">>}
  ELSE SeqsUpTo(CommentAtoms, MaxCommentLen)

CommentEvents ==
  {[kind |-> "issue_comment.created", body |-> Body(FALSE, t), isPullRequest |-> p] :
     t \in CommentTexts, p \in IF InSequence THEN {TRUE} ELSE BOOLEAN}

Events == OpenedEvents \cup SynchronizeEvents \cup CommentEvents

InitialRepoLabels == IF InSequence THEN {{}} ELSE SUBSET {<<"bug">>, <<"test">>}

NoPrompt == [built |-> FALSE, diff |-> <<>>, files |-> <<>>]

\* nothing was handled before the first event
NoPrev == [kind |-> "none", outcome |-> "none", labels |-> <<>>, labelStepFinished |-> FALSE]

\* no concurrent handlers
NoRace == <<>>

\* completion.choices[0].text of a summary or review completion
CompletionTexts ==
  IF InSequence THEN {<<"lgtm", " ">>} ELSE {<<"lgtm">>, <<" ", "lgtm", " ", "nit", " ">>}

\* labelsRes.choices[0].text
LabelOutputs ==
  IF InSequence THEN {<<"zzz">>, <<"bug">>} ELSE SeqsUpTo(OutAtoms, MaxOutLen)

\* a comment as the hosting collaborator stores it
Comment(kind, text) == [kind |-> kind, text |-> text]

CommentKinds == [i \in DOMAIN comments |-> comments[i].kind]

Init ==
  /\ delivered = 1
  /\ pending = 0
  /\ ev \in Events
  /\ pc = "start"
  /\ outcome = "running"
  /\ calls = <<>>
  /\ repoLabels \in InitialRepoLabels
  /\ prLabels = {}
  /\ comments = <<>>
  /\ checkRuns = <<>>
  /\ labelsText = <<>>
  /\ suggestedLabels = <<>>
  /\ idx = 1
  /\ reviewers = <<>>
  /\ filesChanged = <<>>
  /\ fileContents = <<>>
  /\ prompt = NoPrompt
  /\ completion = <<>>
  /\ prev = NoPrev
  /\ race = NoRace

(* ----------------------------------------------- pull_request.opened flow *)
\* variant: the description is tested without trimming
BodyIsBlank_NoTrim(b) == b.isNull \/ b.text = <<>>

\* !body?.trim()
BodyIsBlank(b) == b.isNull \/ Trim(b.text) = <<>>

\* variant: the inner catch creates the label on any failure of the add
AddLabelsCatchCreates_AnyFailure(e) == Status(e) # 200

\* the inner catch of the label loop: only a 404 is acted upon
AddLabelsCatchCreates(e) == Status(e) = 404

\* variant: the outer catch tests the wrong status
OpenedCatchSwallows_WrongStatus(e) == Status(e) = 403 /\ MessageIncludesNotACollaborator(e)

\* the outer catch of the handler
OpenedCatchSwallows(e) == Status(e) = 422 /\ MessageIncludesNotACollaborator(e)

\* an exception reaching the outer catch ends the handler
OpenedCatch(e) ==
  /\ pc' = "done"
  /\ outcome' = IF OpenedCatchSwallows(e) THEN "returned" ELSE "raised"

OpenedStart ==
  /\ pc = "start"
  /\ ev.kind = "pull_request.opened"
  /\ IF BodyIsBlank(ev.body)
       THEN pc' = "summary_model" /\ outcome' = outcome
       ELSE pc' = "done" /\ outcome' = "returned"
  /\ UNCHANGED <<dispatch, completion, ev, calls, repoLabels, prLabels, comments, checkRuns, labelsText,
                 suggestedLabels, idx, reviewers, filesChanged, fileContents, prompt>>

SummaryCompletion ==
  /\ pc = "summary_model"
  /\ \E res \in ModelResults :
       /\ calls' = Append(calls, Call("completions.create", "summary", NoLabels, NoReviewers, 0, res))
       /\ IF res = "ok"
            THEN \E text \in CompletionTexts :
                   completion' = text /\ pc' = "summary_comment" /\ outcome' = outcome
            ELSE OpenedCatch(res) /\ completion' = completion
  /\ UNCHANGED <<dispatch, ev, repoLabels, prLabels, comments, checkRuns, labelsText,
                 suggestedLabels, idx, reviewers, filesChanged, fileContents, prompt>>

SummaryComment ==
  /\ pc = "summary_comment"
  /\ \E res \in CreateCommentResults :
       /\ calls' = Append(calls, Call("createComment", "summary", NoLabels, NoReviewers, 0, res))
       /\ IF res = "ok"
            THEN /\ pc' = "list_files"
                 /\ outcome' = outcome
                 /\ comments' = Append(comments, Comment("summary", Trim(completion)))
            ELSE OpenedCatch(res) /\ comments' = comments
  /\ UNCHANGED <<dispatch, completion, ev, repoLabels, prLabels, checkRuns, labelsText,
                 suggestedLabels, idx, reviewers, filesChanged, fileContents, prompt>>

ListFiles ==
  /\ pc = "list_files"
  /\ \E res \in ListFilesResults :
       /\ calls' = Append(calls, Call("listFiles", "", NoLabels, NoReviewers, 0, res))
       /\ IF res = "ok" THEN pc' = "label_model" /\ outcome' = outcome
          ELSE OpenedCatch(res)
  /\ UNCHANGED <<dispatch, completion, ev, repoLabels, prLabels, comments, checkRuns, labelsText,
                 suggestedLabels, idx, reviewers, filesChanged, fileContents, prompt>>

LabelsCompletion ==
  /\ pc = "label_model"
  /\ \E res \in ModelResults :
       /\ calls' = Append(calls, Call("completions.create", "labels", NoLabels, NoReviewers, 0, res))
       /\ IF res = "ok"
            THEN \E text \in LabelOutputs :
                   /\ labelsText' = text
                   /\ suggestedLabels' = ParseLabels(text)
                   /\ idx' = 1
                   /\ pc' = "label_loop"
                   /\ outcome' = outcome
            ELSE OpenedCatch(res) /\ UNCHANGED <<labelsText, suggestedLabels, idx>>
  /\ UNCHANGED <<dispatch, completion, ev, repoLabels, prLabels, comments, checkRuns,
                 reviewers, filesChanged, fileContents, prompt>>

\* first addLabels of the loop body, with the inner catch
AddLabels ==
  /\ pc = "label_loop"
  /\ idx <= Len(suggestedLabels)
  /\ LET label == suggestedLabels[idx] IN
     \E res \in AddLabelsResults(label) :
       /\ calls' = Append(calls, Call("addLabels", "first", <<label>>, NoReviewers, 0, res))
       /\ IF res = "ok"
            THEN prLabels' = prLabels \cup {label} /\ idx' = idx + 1 /\ pc' = pc
            ELSE IF AddLabelsCatchCreates(res)
                   THEN pc' = "create_label" /\ UNCHANGED <<prLabels, idx>>
                   ELSE idx' = idx + 1 /\ pc' = pc /\ prLabels' = prLabels
  /\ UNCHANGED <<dispatch, completion, ev, outcome, repoLabels, comments, checkRuns, labelsText,
                 suggestedLabels, reviewers, filesChanged, fileContents, prompt>>

CreateLabel ==
  /\ pc = "create_label"
  /\ LET label == suggestedLabels[idx] IN
     \E res \in CreateLabelResults(label) :
       /\ calls' = Append(calls, Call("createLabel", "", <<label>>, NoReviewers, 0, res))
       /\ IF res = "ok"
            THEN repoLabels' = repoLabels \cup {label} /\ pc' = "retry_add" /\ outcome' = outcome
            ELSE OpenedCatch(res) /\ repoLabels' = repoLabels
  /\ UNCHANGED <<dispatch, completion, ev, prLabels, comments, checkRuns, labelsText,
                 suggestedLabels, idx, reviewers, filesChanged, fileContents, prompt>>

RetryAddLabels ==
  /\ pc = "retry_add"
  /\ LET label == suggestedLabels[idx] IN
     \E res \in AddLabelsResults(label) :
       /\ calls' = Append(calls, Call("addLabels", "retry", <<label>>, NoReviewers, 0, res))
       /\ IF res = "ok"
            THEN prLabels' = prLabels \cup {label} /\ idx' = idx + 1
                 /\ pc' = "label_loop" /\ outcome' = outcome
            ELSE OpenedCatch(res) /\ UNCHANGED <<prLabels, idx>>
  /\ UNCHANGED <<dispatch, completion, ev, repoLabels, comments, checkRuns, labelsText,
                 suggestedLabels, reviewers, filesChanged, fileContents, prompt>>

\* loop exit: the reviewers are computed and, when there are none, the
\* handler returns
ComputeReviewers ==
  /\ pc = "label_loop"
  /\ idx > Len(suggestedLabels)
  /\ reviewers' = RouteReviewers(suggestedLabels)
  /\ IF Len(reviewers') > 0
       THEN pc' = "request_reviewers" /\ outcome' = outcome
       ELSE pc' = "done" /\ outcome' = "returned"
  /\ UNCHANGED <<dispatch, completion, ev, calls, repoLabels, prLabels, comments, checkRuns, labelsText,
                 suggestedLabels, idx, filesChanged, fileContents, prompt>>

RequestReviewers ==
  /\ pc = "request_reviewers"
  /\ \E res \in RequestReviewersResults :
       /\ calls' = Append(calls, Call("requestReviewers", "", NoLabels, reviewers, 0, res))
       /\ IF res = "ok" THEN pc' = "done" /\ outcome' = "returned"
          ELSE OpenedCatch(res)
  /\ UNCHANGED <<dispatch, completion, ev, repoLabels, prLabels, comments, checkRuns, labelsText,
                 suggestedLabels, idx, reviewers, filesChanged, fileContents, prompt>>

(* ------------------------------------------ pull_request.synchronize flow *)
Min(a, b) == IF a < b THEN a ELSE b

\* s.slice(0, n)
Slice(s, n) == SubSeq(s, 1, Min(n, Len(s)))

\* a patch is the sequence of its lines (each line named by its number);
\* patch is optional in the commit's file entries
Lines(n) == [i \in 1..n |-> i]

NoPatch == [present |-> FALSE, lines |-> <<>>]

PatchLineCounts == {MAX_LINES, MaxPatchLines}

PatchChoices == {NoPatch} \cup {[present |-> TRUE, lines |-> Lines(n)] : n \in PatchLineCounts}

\* commit.files: the files are named by their position in the list
FileListsUpTo(max) ==
  UNION {{[i \in 1..n |-> [filename |-> i, patch |-> ps[i]]] : ps \in [1..n -> PatchChoices]} :
         n \in 0..max}

FileLists == FileListsUpTo(IF InSequence THEN 1 ELSE MaxFilesChanged)

\* a fetched content is the number of characters of the decoded text
ContentLengths == {MAX_CONTENT_CHARS, MaxContentLen}

GetContentResults ==
  {[ok |-> FALSE, len |-> 0]} \cup {[ok |-> TRUE, len |-> n] : n \in ContentLengths}

GetCommitResults == {"ok", "500"}
CreateCheckResults == {"ok", "500"}

\* variant: the diff section is built from every changed file
DiffSnippet_AllFiles(files) ==
  [i \in 1..Len(files) |->
     [filename |-> files[i].filename, lines |-> Slice(files[i].patch.lines, MAX_LINES)]]

\* filesChanged.slice(0, MAX_FILES).map(f => f.patch!.split("\n").slice(0, 20)...)
DiffSnippet(files) ==
  [i \in 1..Min(MAX_FILES, Len(files)) |->
     [filename |-> files[i].filename, lines |-> Slice(files[i].patch.lines, MAX_LINES)]]

\* reading f.patch!.split of a file without patch raises a TypeError
DiffSnippetThrows(files) ==
  \E i \in 1..Min(MAX_FILES, Len(files)) : ~files[i].patch.present

\* fileContents.slice(0, MAX_FILES).map(f => f.content.slice(0, 2000))
ContentSnippet(contents) ==
  [i \in 1..Min(MAX_FILES, Len(contents)) |->
     [filename |-> contents[i].filename,
      content |-> Min(MAX_CONTENT_CHARS, contents[i].content)]]

\* const reviewComment = completion.choices[0].text.trim()
ReviewCommentText(text) == Trim(text)

\* variant: the check run carries the raw completion text
CheckRunSummary_Untrimmed(text) == text

\* summary: completion.choices[0].text.trim()
CheckRunSummary(text) == Trim(text)

\* variant: the catch lets the failure out of the handler
SynchronizeCatch_Rethrows ==
  /\ pc' = "done"
  /\ outcome' = "raised"

\* the catch of the synchronize handler logs every failure and returns
SynchronizeCatch ==
  /\ pc' = "done"
  /\ outcome' = "returned"

SynchronizeStart ==
  /\ pc = "start"
  /\ ev.kind = "pull_request.synchronize"
  /\ \E res \in GetCommitResults :
       /\ calls' = Append(calls, Call("getCommit", "", NoLabels, NoReviewers, 0, res))
       /\ IF res = "ok"
            THEN \E files \in FileLists :
                   /\ filesChanged' = files
                   /\ IF Len(files) = 0
                        THEN pc' = "done" /\ outcome' = "returned"
                        ELSE pc' = "fetch_contents" /\ outcome' = outcome
            ELSE SynchronizeCatch /\ filesChanged' = filesChanged
  /\ UNCHANGED <<dispatch, completion, ev, repoLabels, prLabels, comments, checkRuns, labelsText,
                 suggestedLabels, idx, reviewers, fileContents, prompt>>

\* Promise.all over filesChanged.map: one getContent call per changed file,
\* all issued before the first answer; then the two snippets and the prompt
FetchContents ==
  /\ pc = "fetch_contents"
  /\ \E rs \in [1..Len(filesChanged) -> GetContentResults] :
       /\ calls' = calls \o [i \in 1..Len(filesChanged) |->
                      Call("getContent", "", NoLabels, NoReviewers, filesChanged[i].filename,
                           IF rs[i].ok THEN "ok" ELSE "500")]
       /\ IF \E i \in 1..Len(filesChanged) : ~rs[i].ok
            THEN SynchronizeCatch /\ UNCHANGED <<fileContents, prompt>>
            ELSE /\ fileContents' = [i \in 1..Len(filesChanged) |->
                                       [filename |-> filesChanged[i].filename,
                                        patch |-> filesChanged[i].patch,
                                        content |-> rs[i].len]]
                 /\ IF DiffSnippetThrows(filesChanged)
                      THEN SynchronizeCatch /\ prompt' = prompt
                      ELSE /\ prompt' = [built |-> TRUE,
                                         diff |-> DiffSnippet(filesChanged),
                                         files |-> ContentSnippet(fileContents')]
                           /\ pc' = "review_model"
                           /\ outcome' = outcome
  /\ UNCHANGED <<dispatch, completion, ev, repoLabels, prLabels, comments, checkRuns, labelsText,
                 suggestedLabels, idx, reviewers, filesChanged>>

ReviewCompletion ==
  /\ pc = "review_model"
  /\ \E res \in ModelResults :
       /\ calls' = Append(calls, Call("completions.create", "review", NoLabels, NoReviewers, 0, res))
       /\ IF res = "ok"
            THEN \E text \in CompletionTexts :
                   completion' = text /\ pc' = "review_comment" /\ outcome' = outcome
            ELSE SynchronizeCatch /\ completion' = completion
  /\ UNCHANGED <<dispatch, ev, repoLabels, prLabels, comments, checkRuns, labelsText,
                 suggestedLabels, idx, reviewers, filesChanged, fileContents, prompt>>

ReviewComment ==
  /\ pc = "review_comment"
  /\ \E res \in CreateCommentResults :
       /\ calls' = Append(calls, Call("createComment", "review", NoLabels, NoReviewers, 0, res))
       /\ IF res = "ok"
            THEN /\ pc' = "check_run"
                 /\ outcome' = outcome
                 /\ comments' = Append(comments, Comment("review", ReviewCommentText(completion)))
            ELSE SynchronizeCatch /\ comments' = comments
  /\ UNCHANGED <<dispatch, completion, ev, repoLabels, prLabels, checkRuns, labelsText,
                 suggestedLabels, idx, reviewers, filesChanged, fileContents, prompt>>

CreateCheck ==
  /\ pc = "check_run"
  /\ \E res \in CreateCheckResults :
       /\ calls' = Append(calls, Call("checks.create", "review", NoLabels, NoReviewers, 0, res))
       /\ IF res = "ok"
            THEN checkRuns' = Append(checkRuns, [status |-> "completed", conclusion |-> "neutral",
                                                 summary |-> CheckRunSummary(completion)])
            ELSE checkRuns' = checkRuns
       /\ pc' = "done"
       /\ outcome' = "returned"
  /\ UNCHANGED <<dispatch, completion, ev, repoLabels, prLabels, comments, labelsText,
                 suggestedLabels, idx, reviewers, filesChanged, fileContents, prompt>>

(* --------------------------------------------- issue_comment.created flow *)
\* variant: the handler answers on plain issues too
IssueIsPullRequest_Always(e) == TRUE

\* issue.pull_request is present
IssueIsPullRequest(e) == e.isPullRequest

\* a keyword is a prefix of the atom (the atom itself, or a longer word)
AtomStartsWith(a, kw) ==
  \/ a = kw
  \/ a = "/labelsx" /\ kw = "/labels"
  \/ a = "/reviewers" /\ kw = "/review"

\* what is left of the atom once the keyword is taken away
AtomRest(a, kw) ==
  IF a = kw THEN <<>>
  ELSE IF a = "/labelsx" THEN <<"x">>
  ELSE <<"ers">>

\* comment.startsWith(kw)
StartsWith(comment, kw) == comment # <<>> /\ AtomStartsWith(Head(comment), kw)

\* comment.replace(kw, "") for a comment that starts with kw
ReplaceKeyword(comment, kw) == AtomRest(Head(comment), kw) \o Tail(comment)

\* s.split(/\s+/) of a trimmed text: an empty text gives one empty token
RECURSIVE SplitWhitespace(_)
SplitWhitespace(s) ==
  LET blanks == {i \in DOMAIN s : IsSpace(s[i])}
  IN IF blanks = {} THEN <<s>>
     ELSE LET i == CHOOSE k \in blanks : \A m \in blanks : k <= m
          IN <<SubSeq(s, 1, i - 1)>> \o SplitWhitespace(TrimStart(SubSeq(s, i + 1, Len(s))))

\* comment.replace(kw, "").trim().split(/\s+/)
SlashArguments(comment, kw) == SplitWhitespace(Trim(ReplaceKeyword(comment, kw)))

\* the branch of the if / else-if chain the comment takes
SlashCommand(comment) ==
  IF StartsWith(comment, "/summarize") THEN "/summarize"
  ELSE IF StartsWith(comment, "/review") THEN "/review"
  ELSE IF StartsWith(comment, "/labels") THEN "/labels"
  ELSE IF StartsWith(comment, "/assign") THEN "/assign"
  ELSE "none"

\* addLabels with a list: added when every label exists on the repository
AddLabelsListResults(labels) ==
  (IF Range(labels) \subseteq repoLabels THEN {"ok"} ELSE {"404"}) \cup {"500"}

\* the catch of the comment handler logs every failure and returns
CommentCatch ==
  /\ pc' = "done"
  /\ outcome' = "returned"

CommentStart ==
  /\ pc = "start"
  /\ ev.kind = "issue_comment.created"
  /\ LET comment == Trim(ev.body.text) IN
     IF ~IssueIsPullRequest(ev)
       THEN pc' = "done" /\ outcome' = "returned"
       ELSE CASE SlashCommand(comment) = "/labels" -> pc' = "slash_labels" /\ outcome' = outcome
              [] SlashCommand(comment) = "/assign" -> pc' = "slash_assign" /\ outcome' = outcome
              [] OTHER -> pc' = "done" /\ outcome' = "returned"
  /\ UNCHANGED <<dispatch, completion, ev, calls, repoLabels, prLabels, comments, checkRuns,
                 labelsText, suggestedLabels, idx, reviewers, filesChanged, fileContents, prompt>>

SlashLabels ==
  /\ pc = "slash_labels"
  /\ LET labels == SlashArguments(Trim(ev.body.text), "/labels") IN
     \E res \in AddLabelsListResults(labels) :
       /\ calls' = Append(calls, Call("addLabels", "slash", labels, NoReviewers, 0, res))
       /\ prLabels' = IF res = "ok" THEN prLabels \cup Range(labels) ELSE prLabels
       /\ IF res = "ok" THEN pc' = "done" /\ outcome' = "returned" ELSE CommentCatch
  /\ UNCHANGED <<dispatch, completion, ev, repoLabels, comments, checkRuns,
                 labelsText, suggestedLabels, idx, reviewers, filesChanged, fileContents, prompt>>

SlashAssign ==
  /\ pc = "slash_assign"
  /\ LET assignees == SlashArguments(Trim(ev.body.text), "/assign") IN
     \E res \in RequestReviewersResults :
       /\ calls' = Append(calls, Call("requestReviewers", "slash", NoLabels, assignees, 0, res))
       /\ IF res = "ok" THEN pc' = "done" /\ outcome' = "returned" ELSE CommentCatch
  /\ UNCHANGED <<dispatch, completion, ev, repoLabels, prLabels, comments, checkRuns,
                 labelsText, suggestedLabels, idx, reviewers, filesChanged, fileContents, prompt>>

(* ---------------------------------------------------------- specification *)
Next ==
  \/ OpenedStart
  \/ SummaryCompletion
  \/ SummaryComment
  \/ ListFiles
  \/ LabelsCompletion
  \/ AddLabels
  \/ CreateLabel
  \/ RetryAddLabels
  \/ ComputeReviewers
  \/ RequestReviewers
  \/ SynchronizeStart
  \/ FetchContents
  \/ ReviewCompletion
  \/ ReviewComment
  \/ CreateCheck
  \/ CommentStart
  \/ SlashLabels
  \/ SlashAssign

Spec == Init /\ [][Next]_vars

(* ------------------------------------------------- a sequence of events *)
\* the label loop of the current event ran to its end
LabelLoopExited ==
  /\ ev.kind = "pull_request.opened"
  /\ \E i \in DOMAIN calls : calls[i].what = "labels" /\ calls[i].res = "ok"
  /\ idx > Len(suggestedLabels)
  /\ pc \in {"label_loop", "request_reviewers", "done"}

InitSeq ==
  /\ delivered = 1
  /\ pending = MaxEvents - 1
  /\ ev \in Events
  /\ pc = "start"
  /\ outcome = "running"
  /\ calls = <<>>
  /\ repoLabels \in InitialRepoLabels
  /\ prLabels = {}
  /\ comments = <<>>
  /\ checkRuns = <<>>
  /\ labelsText = <<>>
  /\ suggestedLabels = <<>>
  /\ idx = 1
  /\ reviewers = <<>>
  /\ filesChanged = <<>>
  /\ fileContents = <<>>
  /\ prompt = NoPrompt
  /\ completion = <<>>
  /\ prev = NoPrev
  /\ race = NoRace

\* the next delivery: the handler of the previous event has settled (returned
\* or rejected); the callback is invoked anew, so its locals are fresh, while
\* the repository keeps its labels, comments and check runs; calls holds the
\* calls of the current event
Receive ==
  /\ pc = "done"
  /\ pending > 0
  /\ delivered' = delivered + 1
  /\ pending' = pending - 1
  /\ ev' \in Events
  /\ prev' = [kind |-> ev.kind, outcome |-> outcome, labels |-> suggestedLabels,
              labelStepFinished |-> LabelLoopExited]
  /\ pc' = "start"
  /\ outcome' = "running"
  /\ calls' = <<>>
  /\ labelsText' = <<>>
  /\ suggestedLabels' = <<>>
  /\ idx' = 1
  /\ reviewers' = <<>>
  /\ filesChanged' = <<>>
  /\ fileContents' = <<>>
  /\ prompt' = NoPrompt
  /\ completion' = <<>>
  /\ UNCHANGED <<repoLabels, prLabels, comments, checkRuns, race>>

NextSeq == Next \/ Receive

SpecSeq == InitSeq /\ [][NextSeq]_vars

(* ------------------- two pull_request.opened handlers on one repository *)
\* Each handler is at its label loop with the same suggested labels, none of
\* which exists on the repository yet; race[h] holds the handler's position,
\* loop index, outcome and the labels of its own pull request.  The hosting
\* collaborator answers by the repository's state alone (no transient
\* failure) and calls is the order in which it served the two handlers.
Handlers == {1, 2}

RaceLabelLists == {<< <<"zzz">> >>, << <<"bug">> >>, << <<"zzz">>, <<"bug">> >>}

RaceCall(h, op, what, label, res) ==
  [handler |-> h, op |-> op, what |-> what, label |-> label, res |-> res]

InitRace ==
  /\ delivered = 1
  /\ pending = 0
  /\ ev = [kind |-> "concurrent", body |-> Body(TRUE, <<>>)]
  /\ pc = "concurrent"
  /\ outcome = "running"
  /\ calls = <<>>
  /\ repoLabels = {}
  /\ prLabels = {}
  /\ comments = <<>>
  /\ checkRuns = <<>>
  /\ labelsText = <<>>
  /\ \E ls \in RaceLabelLists :
       /\ suggestedLabels = ls
       /\ race = [h \in Handlers |->
                    [pc |-> "label_loop", idx |-> 1, outcome |-> "running", prLabels |-> {}]]
  /\ idx = 1
  /\ reviewers = <<>>
  /\ filesChanged = <<>>
  /\ fileContents = <<>>
  /\ prompt = NoPrompt
  /\ completion = <<>>
  /\ prev = NoPrev

RaceUnchanged ==
  UNCHANGED <<ev, pc, outcome, prLabels, comments, checkRuns, labelsText, suggestedLabels,
              idx, reviewers, filesChanged, fileContents, prompt, completion,
              delivered, pending, prev>>

\* the outer catch, for handler h
RaceCatch(h, e) ==
  [race[h] EXCEPT !.pc = "done",
                  !.outcome = IF OpenedCatchSwallows(e) THEN "returned" ELSE "raised"]

RaceAddLabels(h) ==
  /\ race[h].pc = "label_loop"
  /\ race[h].idx <= Len(suggestedLabels)
  /\ LET label == suggestedLabels[race[h].idx] IN
     \E res \in AddLabelsResults(label) \ {"500"} :
       /\ calls' = Append(calls, RaceCall(h, "addLabels", "first", label, res))
       /\ race' = [race EXCEPT ![h] =
            IF res = "ok"
              THEN [@ EXCEPT !.prLabels = @ \cup {label}, !.idx = @ + 1]
              ELSE IF AddLabelsCatchCreates(res)
                     THEN [@ EXCEPT !.pc = "create_label"]
                     ELSE [@ EXCEPT !.idx = @ + 1]]
  /\ repoLabels' = repoLabels
  /\ RaceUnchanged

RaceCreateLabel(h) ==
  /\ race[h].pc = "create_label"
  /\ LET label == suggestedLabels[race[h].idx] IN
     \E res \in CreateLabelResults(label) \ {"500"} :
       /\ calls' = Append(calls, RaceCall(h, "createLabel", "", label, res))
       /\ IF res = "ok"
            THEN /\ repoLabels' = repoLabels \cup {label}
                 /\ race' = [race EXCEPT ![h].pc = "retry_add"]
            ELSE /\ repoLabels' = repoLabels
                 /\ race' = [race EXCEPT ![h] = RaceCatch(h, res)]
  /\ RaceUnchanged

RaceRetryAddLabels(h) ==
  /\ race[h].pc = "retry_add"
  /\ LET label == suggestedLabels[race[h].idx] IN
     \E res \in AddLabelsResults(label) \ {"500"} :
       /\ calls' = Append(calls, RaceCall(h, "addLabels", "retry", label, res))
       /\ race' = [race EXCEPT ![h] =
            IF res = "ok"
              THEN [@ EXCEPT !.prLabels = @ \cup {label}, !.idx = @ + 1, !.pc = "label_loop"]
              ELSE RaceCatch(h, res)]
  /\ repoLabels' = repoLabels
  /\ RaceUnchanged

\* the loop of handler h is over
RaceLoopExit(h) ==
  /\ race[h].pc = "label_loop"
  /\ race[h].idx > Len(suggestedLabels)
  /\ race' = [race EXCEPT ![h].pc = "done", ![h].outcome = "returned"]
  /\ UNCHANGED <<calls, repoLabels>>
  /\ RaceUnchanged

NextRace ==
  \E h \in Handlers :
    \/ RaceAddLabels(h)
    \/ RaceCreateLabel(h)
    \/ RaceRetryAddLabels(h)
    \/ RaceLoopExit(h)

SpecRace == InitRace /\ [][NextRace]_vars

(* ------------------------------ the two pure functions on their own inputs *)
InitPure ==
  /\ ev = [kind |-> "pure", body |-> Body(TRUE, <<>>)]
  /\ pc = "parse"
  /\ outcome = "running"
  /\ calls = <<>>
  /\ repoLabels = {}
  /\ prLabels = {}
  /\ comments = <<>>
  /\ checkRuns = <<>>
  /\ labelsText \in SeqsUpTo(TextAtoms, MaxTextLen)
  /\ suggestedLabels = <<>>
  /\ idx = 1
  /\ reviewers = <<>>
  /\ filesChanged = <<>>
  /\ fileContents = <<>>
  /\ prompt = NoPrompt
  /\ completion = <<>>
  /\ delivered = 1
  /\ pending = 0
  /\ prev = NoPrev
  /\ race = NoRace

PureParse ==
  /\ pc = "parse"
  /\ suggestedLabels' = ParseLabels(labelsText)
  /\ pc' = "route"
  /\ UNCHANGED <<dispatch, completion, ev, outcome, calls, repoLabels, prLabels, comments, checkRuns, labelsText,
                 idx, reviewers, filesChanged, fileContents, prompt>>

PureRoute ==
  /\ pc = "route"
  /\ reviewers' = RouteReviewers(suggestedLabels)
  /\ pc' = "routed"
  /\ UNCHANGED <<dispatch, completion, ev, outcome, calls, repoLabels, prLabels, comments, checkRuns, labelsText,
                 suggestedLabels, idx, filesChanged, fileContents, prompt>>

NextPure == PureParse \/ PureRoute

SpecPure == InitPure /\ [][NextPure]_vars

(* ================================================================ claims *)
IsOpened == ev.kind = "pull_request.opened"
IsSynchronize == ev.kind = "pull_request.synchronize"

CallIndexes(op) == {i \in DOMAIN calls : calls[i].op = op}

IsFirstAdd(c) == c.op = "addLabels" /\ c.what = "first"
IsRetryAdd(c) == c.op = "addLabels" /\ c.what = "retry"

\* a failure inside the label-application step that the step is not meant
\* to recover: every failed create, and every failed add but the first
\* add answered not-found
LabelStepFailure(c) ==
  \/ c.op = "createLabel" /\ c.res # "ok"
  \/ c.op = "addLabels" /\ c.res # "ok" /\ ~(c.what = "first" /\ c.res = "404")

\* C1: in the label-application step only an add-label answered not-found is
\* recovered; any other failed add-label and any failed create-label leaves
\* the step at once: it is the last collaborator call of the event (no later
\* label, no reviewer request) and the handler has ended.
C1_OtherLabelFailuresPropagate ==
  \A i \in DOMAIN calls :
    LabelStepFailure(calls[i]) => (i = Len(calls) /\ pc = "done")

LabelStepFinished ==
  \/ pc = "label_loop" /\ idx > Len(suggestedLabels)
  \/ pc = "request_reviewers"

\* C2: whenever the label-application step finishes without raising, every
\* suggested label is attached to the pull request.
C2_FinishedMeansAllAttached ==
  (IsOpened /\ LabelStepFinished) => Range(suggestedLabels) \subseteq prLabels

LabelCalls == {i \in DOMAIN calls : calls[i].op \in {"addLabels", "createLabel"}}

FirstAdds == {i \in DOMAIN calls : IsFirstAdd(calls[i])}

\* C3: create-label is called only right after the first add of the same
\* label was answered not-found; a retried add is made only right after a
\* successful create of the same label, and a successful create is followed
\* by that retry and nothing else; the first adds follow the list, one per
\* label occurrence, so an occurrence costs at most two adds and one create
\* and the loop ends within three calls per label.
C3_CreateOnceRetryOnce ==
  IsOpened =>
    /\ \A i \in DOMAIN calls :
         calls[i].op = "createLabel" =>
           /\ i > 1
           /\ IsFirstAdd(calls[i - 1])
           /\ calls[i - 1].res = "404"
           /\ calls[i - 1].labels = calls[i].labels
    /\ \A i \in DOMAIN calls :
         IsRetryAdd(calls[i]) =>
           /\ i > 1
           /\ calls[i - 1].op = "createLabel"
           /\ calls[i - 1].res = "ok"
           /\ calls[i - 1].labels = calls[i].labels
    /\ \A i \in DOMAIN calls :
         (calls[i].op = "createLabel" /\ calls[i].res = "ok") =>
           IF i = Len(calls) THEN pc = "retry_add" ELSE IsRetryAdd(calls[i + 1])
    /\ Cardinality(FirstAdds) <= Len(suggestedLabels)
    /\ \A i \in FirstAdds :
         calls[i].labels =
           <<suggestedLabels[Cardinality({j \in FirstAdds : j <= i})]>>
    /\ Cardinality(LabelCalls) <= 3 * Len(suggestedLabels)
    /\ idx <= Len(suggestedLabels) + 1

\* two labels went through add (not found), create, retried add
C3_Witness ==
  /\ IsOpened
  /\ pc = "done"
  /\ Cardinality({i \in DOMAIN calls : IsRetryAdd(calls[i]) /\ calls[i].res = "ok"}) = 2
  /\ Cardinality(CallIndexes("createLabel")) = 2

\* the tokens of the output after lower-casing, splitting on commas and
\* trimming each one
RawTokens(text) == MapTrim(SplitComma(ToLowerCase(Trim(text))))

FirstIndexOf(ts, t) == CHOOSE i \in DOMAIN ts : ts[i] = t /\ \A j \in 1..(i - 1) : ts[j] # t

\* C4: the parsed label list holds no empty string and no duplicate token,
\* and its elements are the non-empty tokens of the output in the order of
\* their first occurrence.
C4_NoEmptyNoDuplicateFirstOccurrence ==
  pc \in {"route", "routed"} =>
    /\ \A i \in DOMAIN suggestedLabels : suggestedLabels[i] # <<>>
    /\ \A i, j \in DOMAIN suggestedLabels : i # j => suggestedLabels[i] # suggestedLabels[j]
    /\ Range(suggestedLabels) = Range(RawTokens(labelsText)) \ {<<>>}
    /\ \A i, j \in DOMAIN suggestedLabels :
         i < j => FirstIndexOf(RawTokens(labelsText), suggestedLabels[i])
                    < FirstIndexOf(RawTokens(labelsText), suggestedLabels[j])

\* the fixed table as the claim states it
TableEntry(l) ==
  CASE l = <<"frontend">> -> {"ui-team"}
    [] l = <<"backend">> -> {"api-team"}
    [] l = <<"bug">> -> {"qa-team"}
    [] l = <<"docs">> -> {"doc-reviewer"}
    [] l = <<"test">> -> {"qa-team"}
    [] l = <<"refactor">> -> {"arch-team"}
    [] l = <<"enhancement">> -> {"feature-owner"}
    [] OTHER -> {}

FirstLabelFor(r) ==
  CHOOSE i \in DOMAIN suggestedLabels :
    r \in TableEntry(suggestedLabels[i])
      /\ \A j \in 1..(i - 1) : r \notin TableEntry(suggestedLabels[j])

\* C5: the reviewer list is the union of the table's entries for the labels
\* of the list, without duplicates and in first-occurrence order; a label
\* absent from the table contributes nothing.
C5_ReviewersAreTableUnion ==
  pc = "routed" =>
    /\ Range(reviewers) = UNION {TableEntry(l) : l \in Range(suggestedLabels)}
    /\ \A i, j \in DOMAIN reviewers : i # j => reviewers[i] # reviewers[j]
    /\ \A i, j \in DOMAIN reviewers :
         (i < j /\ Range(reviewers) = UNION {TableEntry(l) : l \in Range(suggestedLabels)})
           => FirstLabelFor(reviewers[i]) <= FirstLabelFor(reviewers[j])

IsPrefix(s, t) == Len(s) <= Len(t) /\ \A i \in DOMAIN s : s[i] = t[i]

\* C6: a review prompt holds at most 3 files in its diff section and at most
\* 3 in its files section, they are the first 3 of the changed-file list, a
\* file shows at most 20 patch lines (the first ones) and at most 2000
\* content characters; an empty list builds no prompt.
C6_PromptWithinCaps ==
  IsSynchronize =>
    /\ (filesChanged = <<>> => ~prompt.built)
    /\ prompt.built =>
         /\ Len(prompt.diff) <= 3
         /\ Len(prompt.files) <= 3
         /\ Len(prompt.diff) = Min(3, Len(filesChanged))
         /\ Len(prompt.files) = Min(3, Len(filesChanged))
         /\ \A i \in DOMAIN prompt.diff :
              /\ prompt.diff[i].filename = filesChanged[i].filename
              /\ Len(prompt.diff[i].lines) <= 20
              /\ IsPrefix(prompt.diff[i].lines, filesChanged[i].patch.lines)
         /\ \A i \in DOMAIN prompt.files :
              /\ prompt.files[i].filename = filesChanged[i].filename
              /\ prompt.files[i].content <= 2000
              /\ prompt.files[i].content <= fileContents[i].content

\* a prompt built from 4 changed files whose patches and contents exceed the caps
C6_Witness ==
  /\ IsSynchronize
  /\ prompt.built
  /\ Len(filesChanged) = 4
  /\ \A i \in 1..3 : Len(filesChanged[i].patch.lines) > 20 /\ fileContents[i].content > 2000

\* C7: at most 3 fetch-content calls are made per synchronize event.
C7_AtMostThreeContentFetches ==
  IsSynchronize => Cardinality(CallIndexes("getContent")) <= 3

\* the place of a call in the fixed sequence of the opened flow
StepOf(c) ==
  CASE c.op = "completions.create" /\ c.what = "summary" -> 1
    [] c.op = "createComment" -> 2
    [] c.op = "listFiles" -> 3
    [] c.op = "completions.create" /\ c.what = "labels" -> 4
    [] c.op \in {"addLabels", "createLabel"} -> 5
    [] c.op = "requestReviewers" -> 6
    [] OTHER -> 0

\* a call whose failure its step does not recover
StepFailure(c) == c.res # "ok" /\ ~(IsFirstAdd(c) /\ c.res = "404")

\* C8: in a PullRequestOpened event the calls follow the fixed order of
\* steps, each step but label application makes one call, a call of a later
\* step is made only when no call of an earlier step failed, and the summary
\* comment posted stays in place.
C8_FixedOrderStopsAtFailure ==
  IsOpened =>
    /\ \A i, j \in DOMAIN calls : i < j => StepOf(calls[i]) <= StepOf(calls[j])
    /\ \A i, j \in DOMAIN calls :
         (i < j /\ StepOf(calls[i]) = StepOf(calls[j])) => StepOf(calls[i]) = 5
    /\ \A i \in DOMAIN calls : StepOf(calls[i]) \in 1..6
    /\ calls # <<>> => StepOf(calls[1]) = 1
    /\ \A i \in DOMAIN calls :
         i > 1 => StepOf(calls[i]) - StepOf(calls[i - 1]) \in {0, 1}
    /\ \A i, j \in DOMAIN calls :
         (i < j /\ StepOf(calls[i]) < StepOf(calls[j])) => ~StepFailure(calls[i])
    /\ (\E i \in DOMAIN calls : StepOf(calls[i]) = 2 /\ calls[i].res = "ok")
         => CommentKinds = <<"summary">>

\* the description has a character that is not white space
NonBlank(b) == ~b.isNull /\ \E i \in DOMAIN b.text : b.text[i] # " "

\* C9: an opened event whose description is non-blank after trimming makes
\* no model call and no hosting call and completes normally; a null, empty
\* or whitespace-only description always starts the enrichment flow with
\* the summary model call.
C9_NonBlankIsNoOp ==
  IsOpened =>
    /\ NonBlank(ev.body) =>
         /\ calls = <<>>
         /\ comments = <<>>
         /\ prLabels = {}
         /\ pc \in {"start", "done"}
         /\ outcome # "raised"
         /\ pc = "done" => outcome = "returned"
    /\ (~NonBlank(ev.body) /\ pc \notin {"start", "summary_model"}) =>
         /\ calls # <<>>
         /\ calls[1].op = "completions.create"
         /\ calls[1].what = "summary"

\* a description with surrounding blanks was handled as a no-op
C9_Witness ==
  /\ IsOpened
  /\ ev.body.text = <<" ", "fix">>
  /\ pc = "done"
  /\ outcome = "returned"

AttachedByCalls == UNION {Range(calls[i].labels) : i \in {j \in DOMAIN calls :
                                calls[j].op = "addLabels" /\ calls[j].res = "ok"}}

\* C10: when the reviewer request of an opened pull request is rejected as
\* "not a collaborator" the handler completes without raising, that request is the last call of the
\* event (nothing is undone) and the summary comment and every label added
\* earlier are still in place.
C10_NotACollaboratorIsSwallowed ==
  \A i \in DOMAIN calls :
    (IsOpened /\ calls[i].op = "requestReviewers" /\ calls[i].res = "422nc") =>
      /\ pc = "done"
      /\ outcome = "returned"
      /\ i = Len(calls)
      /\ CommentKinds = <<"summary">>
      /\ prLabels = AttachedByCalls

\* the request was rejected after a label had been created and added
C10_Witness ==
  /\ IsOpened
  /\ \E i \in DOMAIN calls : calls[i].op = "requestReviewers" /\ calls[i].res = "422nc"
  /\ \E i \in DOMAIN calls : IsRetryAdd(calls[i]) /\ calls[i].res = "ok"
  /\ prLabels # {}
  /\ CommentKinds = <<"summary">>

IsComment == ev.kind = "issue_comment.created"

C12_CheckRunAfterComment ==
  IsSynchronize =>
    /\ \A i \in DOMAIN calls :
         calls[i].op = "checks.create" =>
           /\ i > 1
           /\ calls[i - 1].op = "createComment"
           /\ calls[i - 1].res = "ok"
    /\ Len(checkRuns) <= Len(comments)
    /\ \A k \in DOMAIN checkRuns :
         /\ checkRuns[k].status = "completed"
         /\ checkRuns[k].conclusion = "neutral"
         /\ comments[k].kind = "review"
         /\ checkRuns[k].summary = comments[k].text
         /\ checkRuns[k].summary = Trim(completion)
    /\ (calls # <<>> /\ calls[1].res = "ok" /\ filesChanged = <<>>) =>
         /\ Len(calls) = 1
         /\ comments = <<>>
         /\ checkRuns = <<>>

\* a check run whose summary is a completion text that had to be trimmed
C12_Witness ==
  /\ IsSynchronize
  /\ Len(checkRuns) = 1
  /\ completion # Trim(completion)
  /\ checkRuns[1].summary = <<"lgtm", " ", "nit">>

SlashKeywords == {"/summarize", "/review", "/labels", "/assign"}

\* the first whitespace-delimited token of the trimmed comment body
FirstToken(text) == Head(SplitWhitespace(Trim(text)))

\* C13: a comment makes a collaborator call only when the first
\* whitespace-delimited token of its trimmed body is exactly one of the four
\* keywords.
C13_OnlyExactKeywordActs ==
  (IsComment /\ calls # <<>>) =>
    \E kw \in SlashKeywords : FirstToken(ev.body.text) = <<kw>>

\* C14: for a comment /labels t1 ... tn (n > 0) on a pull request no model call is
\* made, and once the handler has completed with no call answered by a
\* failure other than not-found, every token is attached.
C14_SlashLabelsReconciles ==
  (/\ IsComment
   /\ IssueIsPullRequest(ev)
   /\ FirstToken(ev.body.text) = <<"/labels">>
   /\ \A t \in Range(SlashArguments(Trim(ev.body.text), "/labels")) : t # <<>>) =>
    /\ \A i \in DOMAIN calls : calls[i].op # "completions.create"
    /\ (pc = "done" /\ \A i \in DOMAIN calls : calls[i].res \in {"ok", "404"}) =>
         Range(SlashArguments(Trim(ev.body.text), "/labels")) \subseteq prLabels

\* C15: a comment on an issue that is not a pull request makes no
\* collaborator call, whatever its body.
C15_PlainIssueIsIgnored ==
  (IsComment /\ ~ev.isPullRequest) =>
    /\ calls = <<>>
    /\ pc \in {"start", "done"}
    /\ outcome # "raised"
    /\ prLabels = {}

\* a /labels command on a plain issue was handled
C15_Witness ==
  /\ IsComment
  /\ ~ev.isPullRequest
  /\ ev.body.text = <<"/labels", " ", "bug">>
  /\ pc = "done"
  /\ outcome = "returned"

\* C16: when the previous event's label application ran to its end without
\* raising and this event applies the same label list, this event makes no
\* create-label call.
C16_SecondRunCreatesNothing ==
  (/\ IsOpened
   /\ delivered > 1
   /\ prev.kind = "pull_request.opened"
   /\ prev.labelStepFinished
   /\ \E i \in DOMAIN calls : calls[i].what = "labels" /\ calls[i].res = "ok"
   /\ prev.labels = suggestedLabels)
    => \A i \in DOMAIN calls : calls[i].op # "createLabel"

\* C17: under every interleaving neither concurrent handler ends in a
\* failure, and a handler that has finished has every label attached.
C17_BothHandlersAttach ==
  \A h \in DOMAIN race :
    /\ race[h].outcome # "raised"
    /\ race[h].pc = "done" => Range(suggestedLabels) \subseteq race[h].prLabels

\* C18: every reviewer passed to the reviewer request of the opened flow is
\* a table entry of a label attached to the pull request in this event.
C18_ReviewersOfAttachedLabels ==
  IsOpened =>
    \A i \in DOMAIN calls :
      calls[i].op = "requestReviewers" =>
        \A r \in Range(calls[i].reviewers) : \E l \in prLabels : r \in TableEntry(l)

ReviewComments == {i \in DOMAIN calls : calls[i].op = "createComment"}
CheckRunCalls == {i \in DOMAIN calls : calls[i].op = "checks.create"}

\* C19: a synchronize event with a non-empty changed-file list whose
\* collaborator calls all succeed ends with exactly one review comment
\* followed by exactly one check run, with or without patch text.
C19_OneCommentThenOneCheckRun ==
  (/\ IsSynchronize
   /\ pc = "done"
   /\ filesChanged # <<>>
   /\ \A i \in DOMAIN calls : calls[i].res = "ok")
    => /\ Cardinality(ReviewComments) = 1
       /\ Cardinality(CheckRunCalls) = 1
       /\ \A i \in ReviewComments, j \in CheckRunCalls : i < j
       /\ Len(comments) = 1
       /\ Len(checkRuns) = 1

\* C20: every label passed to add-label and every reviewer passed to the
\* reviewer request is a non-empty string.
C20_NoEmptyToken ==
  \A i \in DOMAIN calls :
    /\ calls[i].op = "addLabels" => \A l \in Range(calls[i].labels) : l # <<>>
    /\ calls[i].op = "requestReviewers" =>
         IF calls[i].what = "slash"
           THEN \A r \in Range(calls[i].reviewers) : r # <<>>
           ELSE \A r \in Range(calls[i].reviewers) : r # ""

====
